---- MODULE Spec2Model ----
(***************************************************************************)
(* A model of the file cache of github.com/tunabay/go-filecache (cache.go): *)
(* the registry (opMap, refMap, counters, mu, cond), Cache.Get, File.Close  *)
(* and the collector Cache.Serve with its rmCache closure, over a small     *)
(* file system of inodes linked at the final and the ".tmp" paths.          *)
(*                                                                         *)
(* Granularity.  Every lock acquisition and every file-system call made    *)
(* outside the mutex is a step of its own.  A critical section that makes  *)
(* a file-system call while it holds mu (Get's stat, rmCache's stat) is    *)
(* two steps: the Lock, then the call with what follows up to the Unlock.  *)
(* close(op.done) is taken together with the critical section before it:   *)
(* it only enables the receivers, so it commutes with every other step.    *)
(***************************************************************************)
EXTENDS Integers, Sequences, FiniteSets, TLC

\* ---------------------------------------------------------------- bounds
\* Get calls made in one behaviour of the main specification.
MaxCalls == 3
\* The clock of the main specification stops ticking at MaxTime.
MaxTime == 1

\* Goroutines calling Get, and the digests (key.Hash()) they ask for.  The
\* directory walk visits the digests in ascending order (lexical order).
Threads == {1, 2}
Digests == {1, 2, 3}
\* The collector goroutine; as an op id, the collector's REMOVING op.
GC == 0
\* opMap: no entry; mu: unlocked; a path: no inode linked.
NoOp == 0 - 1
Free == 0 - 1
NoIno == 0
\* Inode numbers: enough for every path and every open descriptor.
Inodes == 1 .. (2 * Cardinality(Digests) + Cardinality(Threads))
\* The size of a complete entry (the builder's whole output), in bytes.
FullLen == 1
\* uint64 arithmetic of numFiles and totalSize wraps; TLC's integers have 32
\* bits, so the wrap is kept at a narrower width.
UintMod == 2 ^ 16

\* cache.go:249: var maxCands uint64 = 64
InitMaxCands == 64

NilErr == [op |-> NoOp, kind |-> "nil"]

VARIABLES
    \* Config, fixed at construction
    maxFiles, maxSize, maxAge,
    \* Cache fields guarded by mu
    numFiles, totalSize, numRequested, numHit, numCreated, numFailed, numRemoved,
    opMap, refMap, mu,
    \* the file system: the inode linked at the final path and at the .tmp path
    \* of each digest, and the inodes [len, mtime]
    final, tmp, ino,
    \* the clock
    now,
    \* per goroutine, the frame of its Get call: pc, hash, isRetry, created, sz,
    \* file (the open descriptor: f while building, osFile afterwards) and op
    \* (the op it waits on, by the id of the op's creator)
    get,
    \* op.err of the creating op of each goroutine
    opErr,
    \* the collector: position, ctx cancelled, the capacity and the tree of
    \* candidates, the walk's next digest, the candidate index, and rmCache's
    \* arguments, caller and finfo.Size()
    gcpc, cancelled, maxCands, walkIdx, tree, candIdx, rmHash, rmLastMod, rmFrom,
    rmSize,
    \* the environment: the digests the callers ask for, the Get calls still to
    \* be made, the time at which the clock stops, the number of file-system
    \* calls that may still fail for a reason of their own (an I/O error)
    keys, callsLeft, horizon, ioFaults,
    \* history: what the last call of each goroutine returned, the digests the
    \* directory held after construction, the number of files the initial scan
    \* removed, the digests the collector has unlinked, the digests rmCache
    \* has passed over for an open handle
    ret, disk0, scanRemoved, evicted, skipped,
    \* the Config passed to NewWithConfig (Dir, Create given or nil, MaxFiles,
    \* MaxSize, MaxAge, GCInterval) and what NewWithConfig returned: err, and the cache's dir
    \* and gcInterval
    conf, cache

cfgVars == <<maxFiles, maxSize, maxAge>>
cntVars == <<numFiles, totalSize, numRequested, numHit, numCreated, numFailed, numRemoved>>
fsVars == <<final, tmp, ino>>
gcVars == <<gcpc, maxCands, walkIdx, tree, candIdx, rmHash, rmLastMod, rmFrom, rmSize>>
envVars == <<keys, horizon, disk0, scanRemoved, conf, cache>>
vars == <<cfgVars, cntVars, opMap, refMap, mu, fsVars, now, get, opErr, gcVars,
          cancelled, callsLeft, ret, envVars, ioFaults, evicted, skipped>>

\* ------------------------------------------------------------ file system
FreeIno == [len |-> 0, mtime |-> 0]

\* An inode is referenced by a path or by an open descriptor.
Referenced(i, fin, tm, g) ==
    \/ \E d \in Digests : fin[d] = i \/ tm[d] = i
    \/ \E p \in Threads : g[p].file = i

\* Inodes no path and no descriptor references are released.
Reclaim(in, fin, tm, g) ==
    [i \in Inodes |-> IF Referenced(i, fin, tm, g) THEN in[i] ELSE FreeIno]

\* The inode a create allocates: the lowest unreferenced one.
NewIno ==
    CHOOSE i \in Inodes :
        /\ ~Referenced(i, final, tmp, get)
        /\ \A j \in Inodes : j < i => Referenced(j, final, tmp, get)

\* finfo.ModTime() and finfo.Size() of the file at the final path of d.
ModTime(d) == ino[final[d]].mtime
Size(d) == ino[final[d]].len

\* An inode holds the complete output of a builder run.
Complete(i) == ino[i].len = FullLen

\* ---------------------------------------------------------- construction
\* The age test of both walkers (cache.go:165 and :277): c.maxAge < age.
Expired(age, mtime, t) == age < t - mtime

\* A goroutine outside Get, and the result slot of a goroutine that has not
\* called Get.
IdleFrame == [pc |-> "idle", hash |-> 1, isRetry |-> FALSE, created |-> FALSE,
              sz |-> 0, file |-> NoIno, op |-> NoOp]
NoRet == [st |-> "none", hash |-> 1, built |-> FALSE, fromCache |-> FALSE,
          err |-> NilErr]

\* A path: absolute or relative, and its names; "" is the relative path of
\* no name.
EmptyPath == [abs |-> FALSE, names |-> << >>]
\* filepath.IsAbs and filepath.Join.
IsAbs(path) == path.abs
Join(a, b) == [abs |-> a.abs, names |-> a.names \o b.names]
\* filepath.Base(os.Args[0]) and the directory os.UserCacheDir() returns.
ProgramBase == [abs |-> FALSE, names |-> <<"prog">>]
UserCacheDir == [abs |-> TRUE, names |-> <<"home", ".cache">>]

\* part_004:149: const defaultGCInterval = time.Minute, in the unit of the
\* GCInterval values of the model.
defaultGCInterval == 60

\* What NewWithConfig returns before it has made the Cache.
Failed(e) == [err |-> e, dir |-> EmptyPath, gcInterval |-> 0]

\* NewWithConfig up to the scan of the directory (cache.go:88-131): the
\* validation of the Config, the default of gcInterval, the resolution of dir
\* (ucdOk: os.UserCacheDir succeeds) and os.MkdirAll (mkdirOk: it succeeds).
NewWithConfig(cf, ucdOk, mkdirOk) ==
    IF cf.Dir = EmptyPath THEN Failed("empty Dir")
    ELSE IF ~cf.Create THEN Failed("nil Create")
    ELSE IF cf.MaxAge < 0 THEN Failed("negative MaxAge")
    ELSE IF cf.GCInterval < 0 THEN Failed("negative GCInterval")
    ELSE
        LET gi == IF cf.GCInterval = 0 THEN defaultGCInterval ELSE cf.GCInterval
            d0 == IF cf.Dir = EmptyPath THEN ProgramBase ELSE cf.Dir
        IN  IF ~IsAbs(d0) /\ ~ucdOk THEN Failed("UserCacheDir")
            ELSE LET d1 == IF ~IsAbs(d0) THEN Join(UserCacheDir, d0) ELSE d0
                 IN  IF ~mkdirOk THEN Failed("MkdirAll")
                     ELSE [err |-> "nil", dir |-> d1, gcInterval |-> gi]

\* The Config of the caches of the specifications below: a relative Dir, a
\* Create function, the caps and the age, the default GCInterval.
DirConfig(mf, ms, ma) ==
    [Dir |-> [abs |-> FALSE, names |-> <<"cache">>], Create |-> TRUE,
     MaxFiles |-> mf, MaxSize |-> ms, MaxAge |-> ma, GCInterval |-> 0]

\* The fields of the Cache and the file system after the scan of NewWithConfig
\* (cache.go:133-193) at time t0 over a cache directory that holds complete
\* entries, written at time 0, for the digests in disk: the scan removes an
\* expired file and counts any other.  n Get calls for the digests in ks are
\* to come, and the clock runs up to tmax.
AfterScan(mf, ms, ma, disk, t0, ks, n, tmax, nf) ==
    LET kept == {d \in disk : ~Expired(ma, 0, t0)}
        rank(d) == Cardinality({e \in kept : e <= d})
    IN  /\ maxFiles = mf /\ maxSize = ms /\ maxAge = ma
        /\ now = t0
        /\ final = [d \in Digests |-> IF d \in kept THEN rank(d) ELSE NoIno]
        /\ tmp = [d \in Digests |-> NoIno]
        /\ ino = [i \in Inodes |-> IF i <= Cardinality(kept)
                                   THEN [len |-> FullLen, mtime |-> 0] ELSE FreeIno]
        /\ numFiles = Cardinality(kept)
        /\ totalSize = Cardinality(kept) * FullLen
        /\ scanRemoved = Cardinality(disk \ kept)
        /\ numRequested = 0 /\ numHit = 0 /\ numCreated = 0
        /\ numFailed = 0 /\ numRemoved = 0
        /\ opMap = [d \in Digests |-> NoOp]
        /\ refMap = [d \in {} |-> 0]
        /\ mu = Free
        /\ get = [p \in Threads |-> IdleFrame]
        /\ opErr = [p \in Threads |-> NilErr]
        /\ gcpc = "lock" /\ cancelled = FALSE
        /\ maxCands = InitMaxCands /\ walkIdx = 1 /\ tree = << >> /\ candIdx = 1
        /\ rmHash = 1 /\ rmLastMod = 0 /\ rmFrom = "walk" /\ rmSize = 0
        /\ keys = ks /\ callsLeft = n /\ horizon = tmax /\ ioFaults = nf
        /\ disk0 = kept /\ evicted = {} /\ skipped = {}
        /\ ret = [p \in Threads |-> NoRet]

\* NewWithConfig: the state after a construction that succeeds.
Constructed(mf, ms, ma, disk, t0, ks, n, tmax, nf) ==
    /\ AfterScan(mf, ms, ma, disk, t0, ks, n, tmax, nf)
    /\ conf = DirConfig(mf, ms, ma)
    /\ cache = NewWithConfig(DirConfig(mf, ms, ma), TRUE, TRUE)

\* The main specification: at most one file, a size cap no directory reaches,
\* entries expire after one tick; the callers ask for digest 1, and the directory
\* holds nothing or the two other entries.
Init ==
    \E disk \in {{}, {2, 3}} :
        Constructed(1, FullLen * Cardinality(Digests), 1, disk, 0, {1}, MaxCalls, MaxTime, 0)

\* ------------------------------------------------------------------- ops
\* opType with every op taken for a removing one.
opTypeAllRemoving(n) == 1

\* opEntry.opType of the op with id n: 0 creating (a Get call's), 1 removing.
opType(n) == IF n = GC THEN 1 ELSE 0

\* The goroutines blocked in <-op.done on the op with id n.
Waiters(n) == {w \in Threads : get[w].pc \in {"g_waitc", "g_waitr"} /\ get[w].op = n}

\* Returned with the flag inverted: (file, created, err).
ReturnedCreated(p, fromCache, err) ==
    [ret[p] EXCEPT !.st = IF err = NilErr THEN "ok" ELSE "err",
                   !.fromCache = ~fromCache, !.err = err]

\* What a call of p returns: (file, !created, err).
Returned(p, fromCache, err) ==
    [ret[p] EXCEPT !.st = IF err = NilErr THEN "ok" ELSE "err",
                   !.fromCache = fromCache, !.err = err]

\* The frames after close(op.done) of the creating op n with op.err = e, the
\* closing goroutine p getting the frame own: a receiver returns op.err if it
\* is set (cache.go:385-387) and goes on to open the file otherwise.
WakeCreate(n, e, p, own) ==
    [w \in Threads |->
        IF w = p THEN own
        ELSE IF w \in Waiters(n)
             THEN (IF e = NilErr THEN [get[w] EXCEPT !.pc = "g_open", !.op = NoOp]
                   ELSE IdleFrame)
        ELSE get[w]]

\* ret after the same close: the receivers of a failed op return its error.
RetCreate(n, e, p, own) ==
    [w \in Threads |->
        IF w = p THEN own
        ELSE IF w \in Waiters(n) /\ e # NilErr THEN Returned(w, FALSE, e)
        ELSE ret[w]]

\* The frames after close(op.done) of the collector's removing op: the
\* receivers continue the loop of Get with isRetry = true (cache.go:397-398).
WakeRemove ==
    [w \in Threads |->
        IF w \in Waiters(GC)
        THEN [get[w] EXCEPT !.pc = "g_lock", !.isRetry = TRUE, !.op = NoOp]
        ELSE get[w]]

\* cond.Broadcast(): the collector parked in cond.Wait() goes back to Lock.
Broadcast(at) == IF at = "condwait" THEN "lock" ELSE at

\* ------------------------------------------------------------------- Get
\* Get is called with a key of digest d: hash, dir, path are computed.
GetStart(p, d) ==
    /\ get[p].pc = "idle"
    /\ d \in keys
    /\ callsLeft > 0
    /\ callsLeft' = callsLeft - 1
    /\ get' = [get EXCEPT ![p] = [IdleFrame EXCEPT !.pc = "g_lock", !.hash = d]]
    /\ ret' = [ret EXCEPT ![p] = [NoRet EXCEPT !.st = "run", !.hash = d]]
    /\ UNCHANGED <<cfgVars, cntVars, opMap, refMap, mu, fsVars, now, opErr, gcVars,
                   cancelled, envVars, ioFaults, evicted, skipped>>

\* cache.go:373-400: Lock, count the request, look the op up.  A creating op:
\* count a hit, Unlock, wait.  A removing op: Unlock, fail on a retry, wait
\* otherwise.  No op: keep mu and go on to the stat.
GetLock(p) ==
    /\ get[p].pc = "g_lock"
    /\ mu = Free
    /\ numRequested' = IF get[p].isRetry THEN numRequested ELSE numRequested + 1
    /\ LET op == opMap[get[p].hash] IN
       IF op # NoOp /\ opType(op) = 0 THEN
            /\ numHit' = numHit + 1
            /\ get' = [get EXCEPT ![p].pc = "g_waitc", ![p].op = op]
            /\ UNCHANGED <<mu, ret>>
       ELSE IF op # NoOp THEN
            /\ IF get[p].isRetry
               THEN /\ get' = [get EXCEPT ![p] = IdleFrame]
                    /\ ret' = [ret EXCEPT ![p] =
                                 Returned(p, FALSE, [op |-> NoOp, kind |-> "twice"])]
               ELSE /\ get' = [get EXCEPT ![p].pc = "g_waitr", ![p].op = op]
                    /\ UNCHANGED ret
            /\ UNCHANGED <<mu, numHit>>
       ELSE
            /\ mu' = p
            /\ get' = [get EXCEPT ![p].pc = "g_stat"]
            /\ UNCHANGED <<numHit, ret>>
    /\ UNCHANGED <<cfgVars, numFiles, totalSize, numCreated, numFailed, numRemoved,
                   opMap, refMap, fsVars, now, opErr, gcVars, cancelled, callsLeft,
                   envVars, ioFaults, evicted, skipped>>

\* cache.go:402-413 and :497-505, mu held: os.Stat(path).  It fails with an
\* error other than fs.ErrNotExist: count a failure, Unlock, return the error.
\* The file exists: os.Chtimes to now, count a hit, Unlock.  It does not:
\* install the creating op of this call, Unlock.
GetStat(p) ==
    /\ get[p].pc = "g_stat"
    /\ mu = p
    /\ \E fault \in (IF ioFaults > 0 THEN BOOLEAN ELSE {FALSE}) :
       LET d == get[p].hash IN
       IF fault THEN
            /\ ioFaults' = ioFaults - 1
            /\ numFailed' = numFailed + 1
            /\ get' = [get EXCEPT ![p] = IdleFrame]
            /\ ret' = [ret EXCEPT ![p] =
                         Returned(p, FALSE, [op |-> NoOp, kind |-> "stat path"])]
            /\ UNCHANGED <<opMap, ino, numHit>>
       ELSE IF final[d] # NoIno THEN
            /\ ino' = [ino EXCEPT ![final[d]].mtime = now]
            /\ numHit' = numHit + 1
            /\ get' = [get EXCEPT ![p].pc = "g_open"]
            /\ UNCHANGED <<opMap, ret, numFailed, ioFaults>>
       ELSE
            /\ opMap' = [opMap EXCEPT ![d] = p]
            /\ get' = [get EXCEPT ![p].pc = "g_opentmp"]
            /\ ret' = [ret EXCEPT ![p].built = TRUE]
            /\ UNCHANGED <<ino, numHit, numFailed, ioFaults>>
    /\ mu' = Free
    /\ UNCHANGED <<cfgVars, numFiles, totalSize, numRequested, numCreated,
                   numRemoved, refMap, final, tmp, now, opErr, gcVars, cancelled,
                   callsLeft, envVars, evicted, skipped>>

\* cache.go:415-429: MkdirAll(dir), then OpenFile(tmpPath, O_WRONLY|O_CREATE|
\* O_TRUNC): the inode linked at the .tmp path is truncated, or a new one is
\* created there.  A failing OpenFile sets op.err (cache.go:430-431).
GetOpenTmp(p) ==
    /\ get[p].pc = "g_opentmp"
    /\ \E fault \in (IF ioFaults > 0 THEN BOOLEAN ELSE {FALSE}) :
       LET d == get[p].hash
           i == IF tmp[d] # NoIno THEN tmp[d] ELSE NewIno
       IN  IF fault THEN
                /\ ioFaults' = ioFaults - 1
                /\ opErr' = [opErr EXCEPT ![p] = [op |-> p, kind |-> "open tmp"]]
                /\ get' = [get EXCEPT ![p].pc = "g_failrm"]
                /\ UNCHANGED <<tmp, ino>>
           ELSE
                /\ tmp' = [tmp EXCEPT ![d] = i]
                /\ ino' = [ino EXCEPT ![i] = [len |-> 0, mtime |-> now]]
                /\ get' = [get EXCEPT ![p].pc = "g_create", ![p].file = i]
                /\ UNCHANGED <<opErr, ioFaults>>
    /\ UNCHANGED <<cfgVars, cntVars, opMap, refMap, mu, final, now, gcVars,
                   cancelled, callsLeft, ret, envVars, evicted, skipped>>

\* cache.go:442 and :455: c.create(key, f) writes its output through f and
\* returns nil; f is closed.
GetCreate(p) ==
    /\ get[p].pc = "g_create"
    /\ LET g == [get EXCEPT ![p].pc = "g_stattmp", ![p].file = NoIno] IN
        /\ get' = g
        /\ ino' = Reclaim([ino EXCEPT ![get[p].file] = [len |-> FullLen, mtime |-> now]],
                          final, tmp, g)
    /\ UNCHANGED <<cfgVars, cntVars, opMap, refMap, mu, final, tmp, now, opErr,
                   gcVars, cancelled, callsLeft, ret, envVars, ioFaults, evicted, skipped>>

\* cache.go:442-444: c.create returns an error: op.err is set, f is closed.
GetCreateFail(p) ==
    /\ get[p].pc = "g_create"
    /\ opErr' = [opErr EXCEPT ![p] = [op |-> p, kind |-> "create"]]
    /\ LET g == [get EXCEPT ![p].pc = "g_failrm", ![p].file = NoIno] IN
        /\ get' = g
        /\ ino' = Reclaim(ino, final, tmp, g)
    /\ UNCHANGED <<cfgVars, cntVars, opMap, refMap, mu, final, tmp, now, gcVars,
                   cancelled, callsLeft, ret, envVars, ioFaults, evicted, skipped>>

\* cache.go:458-471: os.Stat(tmpPath) for the size; on an error op.err is set.
GetStatTmp(p) ==
    /\ get[p].pc = "g_stattmp"
    /\ LET d == get[p].hash IN
       IF tmp[d] # NoIno THEN
            /\ get' = [get EXCEPT ![p].pc = "g_rename", ![p].sz = ino[tmp[d]].len]
            /\ UNCHANGED opErr
       ELSE
            /\ opErr' = [opErr EXCEPT ![p] = [op |-> p, kind |-> "stat"]]
            /\ get' = [get EXCEPT ![p].pc = "g_failrm"]
    /\ UNCHANGED <<cfgVars, cntVars, opMap, refMap, mu, fsVars, now, gcVars,
                   cancelled, callsLeft, ret, envVars, ioFaults, evicted, skipped>>

\* cache.go:473-474: os.Rename(tmpPath, path) links the inode of the .tmp path
\* at the final path, replacing what is there; on an error op.err is set.
GetRename(p) ==
    /\ get[p].pc = "g_rename"
    /\ LET d == get[p].hash IN
       IF tmp[d] # NoIno THEN
            /\ LET fin == [final EXCEPT ![d] = tmp[d]]
                   tm == [tmp EXCEPT ![d] = NoIno]
               IN  /\ final' = fin
                   /\ tmp' = tm
                   /\ ino' = Reclaim(ino, fin, tm, get)
            /\ get' = [get EXCEPT ![p].pc = "g_publish"]
            /\ UNCHANGED opErr
       ELSE
            /\ opErr' = [opErr EXCEPT ![p] = [op |-> p, kind |-> "rename"]]
            /\ get' = [get EXCEPT ![p].pc = "g_failrm"]
            /\ UNCHANGED fsVars
    /\ UNCHANGED <<cfgVars, cntVars, opMap, refMap, mu, now, gcVars, cancelled,
                   callsLeft, ret, envVars, ioFaults, evicted, skipped>>

\* cache.go:445-446 (and :461-462, :475-476): os.Remove(tmpPath) and
\* os.Remove(path), errors ignored.
GetFailRemove(p) ==
    /\ get[p].pc = "g_failrm"
    /\ LET d == get[p].hash
           fin == [final EXCEPT ![d] = NoIno]
           tm == [tmp EXCEPT ![d] = NoIno]
       IN  /\ final' = fin
           /\ tmp' = tm
           /\ ino' = Reclaim(ino, fin, tm, get)
    /\ get' = [get EXCEPT ![p].pc = "g_fail"]
    /\ UNCHANGED <<cfgVars, cntVars, opMap, refMap, mu, now, opErr, gcVars,
                   cancelled, callsLeft, ret, envVars, ioFaults, evicted, skipped>>

\* GetFail counting a failure for each receiver of the failed op as well.
GetFailCountsWaiters(p) ==
    /\ get[p].pc = "g_fail"
    /\ mu = Free
    /\ opMap' = [opMap EXCEPT ![get[p].hash] = NoOp]
    /\ numFailed' = numFailed + 1 + Cardinality(Waiters(p))
    /\ get' = WakeCreate(p, opErr[p], p, IdleFrame)
    /\ ret' = RetCreate(p, opErr[p], p, Returned(p, FALSE, opErr[p]))
    /\ opErr' = [opErr EXCEPT ![p] = NilErr]
    /\ UNCHANGED <<cfgVars, numFiles, totalSize, numRequested, numHit, numCreated,
                   numRemoved, refMap, mu, fsVars, now, gcVars, cancelled, callsLeft,
                   envVars, ioFaults, evicted, skipped>>

\* GetFail without the delete(c.opMap, hash).
GetFailKeepsOp(p) ==
    /\ get[p].pc = "g_fail"
    /\ mu = Free
    /\ numFailed' = numFailed + 1
    /\ get' = WakeCreate(p, opErr[p], p, IdleFrame)
    /\ ret' = RetCreate(p, opErr[p], p, Returned(p, FALSE, opErr[p]))
    /\ opErr' = [opErr EXCEPT ![p] = NilErr]
    /\ UNCHANGED <<cfgVars, numFiles, totalSize, numRequested, numHit, numCreated,
                   numRemoved, opMap, refMap, mu, fsVars, now, gcVars, cancelled,
                   callsLeft, envVars, ioFaults, evicted, skipped>>

\* cache.go:447-453: Lock, delete(c.opMap, hash), numFailed++, Unlock,
\* close(op.done), return op.err.
GetFail(p) ==
    /\ get[p].pc = "g_fail"
    /\ mu = Free
    /\ opMap' = [opMap EXCEPT ![get[p].hash] = NoOp]
    /\ numFailed' = numFailed + 1
    /\ get' = WakeCreate(p, opErr[p], p, IdleFrame)
    /\ ret' = RetCreate(p, opErr[p], p, Returned(p, FALSE, opErr[p]))
    /\ opErr' = [opErr EXCEPT ![p] = NilErr]
    /\ UNCHANGED <<cfgVars, numFiles, totalSize, numRequested, numHit, numCreated,
                   numRemoved, refMap, mu, fsVars, now, gcVars, cancelled, callsLeft,
                   envVars, ioFaults, evicted, skipped>>

\* cache.go:488-496: Lock, numFiles++, totalSize += sz, delete(c.opMap, hash),
\* cond.Broadcast(), numCreated++, Unlock, close(op.done), created = true.
GetPublish(p) ==
    /\ get[p].pc = "g_publish"
    /\ mu = Free
    /\ numFiles' = (numFiles + 1) % UintMod
    /\ totalSize' = (totalSize + get[p].sz) % UintMod
    /\ opMap' = [opMap EXCEPT ![get[p].hash] = NoOp]
    /\ gcpc' = Broadcast(gcpc)
    /\ numCreated' = numCreated + 1
    /\ get' = WakeCreate(p, NilErr, p,
                         [get[p] EXCEPT !.pc = "g_open", !.created = TRUE])
    /\ UNCHANGED <<cfgVars, numRequested, numHit, numFailed, numRemoved, refMap, mu,
                   fsVars, now, opErr, maxCands, walkIdx, tree, candIdx, rmHash,
                   rmLastMod, rmFrom, rmSize, cancelled, callsLeft, ret, envVars, ioFaults, evicted, skipped>>

\* cache.go:510-519: os.Open(path), osFile.Stat(); a failed open returns
\* (nil, !created, err).
GetOpen(p) ==
    /\ get[p].pc = "g_open"
    /\ LET d == get[p].hash IN
       IF final[d] # NoIno THEN
            /\ get' = [get EXCEPT ![p].pc = "g_ref", ![p].file = final[d]]
            /\ UNCHANGED ret
       ELSE
            /\ get' = [get EXCEPT ![p] = IdleFrame]
            /\ ret' = [ret EXCEPT ![p] =
                         Returned(p, ~get[p].created, [op |-> NoOp, kind |-> "open"])]
    /\ UNCHANGED <<cfgVars, cntVars, opMap, refMap, mu, fsVars, now, opErr, gcVars,
                   cancelled, callsLeft, envVars, ioFaults, evicted, skipped>>

\* Cache.ref (cache.go:50-55): refMap[hash] = v + 1, an absent entry being 0.
ref(hash) ==
    [d \in DOMAIN refMap \cup {hash} |->
        IF d = hash THEN (IF hash \in DOMAIN refMap THEN refMap[hash] ELSE 0) + 1
        ELSE refMap[d]]

\* unref that decrements at 1 as well: the entry stays, at zero.
unrefKeepsZero(hash) ==
    LET v == IF hash \in DOMAIN refMap THEN refMap[hash] ELSE 0 IN
    [d \in DOMAIN refMap \cup {hash} |-> IF d = hash THEN v - 1 ELSE refMap[d]]

\* Cache.unref (cache.go:57-66): delete the entry at 1, decrement otherwise.
unref(hash) ==
    LET v == IF hash \in DOMAIN refMap THEN refMap[hash] ELSE 0 IN
    IF v = 1 THEN [d \in DOMAIN refMap \ {hash} |-> refMap[d]]
    ELSE [d \in DOMAIN refMap \cup {hash} |-> IF d = hash THEN v - 1 ELSE refMap[d]]

\* cache.go:524-534: the File is built, c.ref(hash), return (file, !created, nil).
\* The goroutine holds the File from here on.
GetRef(p) ==
    /\ get[p].pc = "g_ref"
    /\ mu = Free
    /\ refMap' = ref(get[p].hash)
    /\ get' = [get EXCEPT ![p].pc = "holding"]
    /\ ret' = [ret EXCEPT ![p] = Returned(p, ~get[p].created, NilErr)]
    /\ UNCHANGED <<cfgVars, cntVars, opMap, mu, fsVars, now, opErr, gcVars,
                   cancelled, callsLeft, envVars, ioFaults, evicted, skipped>>

\* File.Close: f.parent.unref(f.hash), then f.file.Close().
Close(p) ==
    /\ get[p].pc = "holding"
    /\ mu = Free
    /\ refMap' = unref(get[p].hash)
    /\ LET g == [get EXCEPT ![p] = IdleFrame] IN
        /\ get' = g
        /\ ino' = Reclaim(ino, final, tmp, g)
    /\ UNCHANGED <<cfgVars, cntVars, opMap, mu, final, tmp, now, opErr, gcVars,
                   cancelled, callsLeft, ret, envVars, ioFaults, evicted, skipped>>

\* ------------------------------------------------------------- collector
\* cache.go:238 and :309: the cache exceeds a cap.
Overflow == maxFiles < numFiles \/ maxSize < totalSize

\* cache.go:249-252: the capacity of the candidate tree.
RECURSIVE CandCap(_)
CandCap(c) == IF (numFiles + c) % UintMod < maxFiles THEN CandCap((2 * c) % UintMod) ELSE c

\* An insertion that keeps the tree in descending order of lastMod.
InsertNewestFirst(t, c) ==
    LET k == Cardinality({j \in 1 .. Len(t) : c.lastMod < t[j].lastMod})
    IN  SubSeq(t, 1, k) \o <<c>> \o SubSeq(t, k + 1, Len(t))

\* candidate.Less orders by lastMod alone; llrb's InsertNoReplace puts an item
\* after the items that are not greater.
InsertNoReplace(t, c) ==
    LET k == Cardinality({j \in 1 .. Len(t) : ~(c.lastMod < t[j].lastMod)})
    IN  SubSeq(t, 1, k) \o <<c>> \o SubSeq(t, k + 1, Len(t))

\* The removal of the first item in order (llrb's DeleteMin).
DeleteMin(t) == SubSeq(t, 2, Len(t))

\* llrb's DeleteMax removes the last item in order.
DeleteMax(t) == SubSeq(t, 1, Len(t) - 1)

\* cache.go:288-291: insert the candidate, drop the newest beyond maxCands.
AddCandidate(t, c) ==
    LET u == InsertNoReplace(t, c)
    IN  IF maxCands < Len(u) THEN DeleteMax(u) ELSE u

NumDigests == Cardinality(Digests)

\* Where Serve continues when rmCache returns: in the walk, or, the walk
\* being over or the caller being the candidate loop, in the candidate loop.
AfterRm == IF rmFrom = "walk" /\ walkIdx <= NumDigests THEN "walk" ELSE "loop"

\* rmCache returns: its locals are dead.
RmReturn ==
    /\ gcpc' = AfterRm
    /\ rmHash' = 1 /\ rmLastMod' = 0 /\ rmSize' = 0 /\ rmFrom' = "walk"

\* cache.go:237-252: Lock; while no cap is exceeded and ctx is not done,
\* cond.Wait(); Unlock; return on a done ctx; else start a cycle.
GCWait ==
    /\ gcpc = "lock"
    /\ mu = Free
    /\ IF ~Overflow /\ ~cancelled THEN
            /\ gcpc' = "condwait"
            /\ UNCHANGED <<maxCands, walkIdx, tree, candIdx>>
       ELSE IF cancelled THEN
            /\ gcpc' = "returned"
            /\ UNCHANGED <<maxCands, walkIdx, tree, candIdx>>
       ELSE
            /\ gcpc' = "walk"
            /\ maxCands' = CandCap(InitMaxCands)
            /\ walkIdx' = 1 /\ tree' = << >> /\ candIdx' = 1
    /\ UNCHANGED <<cfgVars, cntVars, opMap, refMap, mu, fsVars, now, get, opErr,
                   rmHash, rmLastMod, rmFrom, rmSize, cancelled, callsLeft, ret,
                   envVars, ioFaults, evicted, skipped>>

\* cache.go:255-293, the walker on the next file: an expired file goes to
\* rmCache at once, any other becomes a candidate.
GCWalk ==
    /\ gcpc = "walk"
    /\ LET d == walkIdx
           next == IF walkIdx < NumDigests THEN "walk" ELSE "loop"
       IN
       /\ walkIdx' = walkIdx + 1
       /\ IF final[d] = NoIno THEN
               /\ gcpc' = next
               /\ UNCHANGED <<tree, rmHash, rmLastMod, rmFrom>>
          ELSE IF Expired(maxAge, ModTime(d), now) THEN
               /\ gcpc' = "rm_lock"
               /\ rmHash' = d /\ rmLastMod' = ModTime(d) /\ rmFrom' = "walk"
               /\ UNCHANGED tree
          ELSE
               /\ gcpc' = next
               /\ tree' = AddCandidate(tree, [hash |-> d, lastMod |-> ModTime(d)])
               /\ UNCHANGED <<rmHash, rmLastMod, rmFrom>>
    /\ UNCHANGED <<cfgVars, cntVars, opMap, refMap, mu, fsVars, now, get, opErr,
                   maxCands, candIdx, rmSize, cancelled, callsLeft, ret, envVars, ioFaults, evicted, skipped>>

\* GCLoop without the test of the caps: every candidate goes to rmCache.
GCLoopNoRecheck ==
    /\ gcpc = "loop"
    /\ IF candIdx > Len(tree) THEN
            /\ gcpc' = "sleep"
            /\ UNCHANGED <<candIdx, rmHash, rmLastMod, rmFrom>>
       ELSE /\ mu = Free
            /\ gcpc' = "rm_lock"
            /\ rmHash' = tree[candIdx].hash
            /\ rmLastMod' = tree[candIdx].lastMod
            /\ rmFrom' = "loop"
            /\ candIdx' = candIdx + 1
    /\ UNCHANGED <<cfgVars, cntVars, opMap, refMap, mu, fsVars, now, get, opErr,
                   maxCands, walkIdx, tree, rmSize, cancelled, callsLeft, ret, envVars, ioFaults, evicted, skipped>>

\* cache.go:307-320: the next candidate: Lock, test the caps, Unlock; stop
\* when no cap is exceeded, else call rmCache.  The list over: GC finished.
GCLoop ==
    /\ gcpc = "loop"
    /\ IF candIdx > Len(tree) THEN
            /\ gcpc' = "sleep"
            /\ UNCHANGED <<candIdx, rmHash, rmLastMod, rmFrom>>
       ELSE /\ mu = Free
            /\ IF ~Overflow THEN
                    /\ gcpc' = "sleep"
                    /\ UNCHANGED <<candIdx, rmHash, rmLastMod, rmFrom>>
               ELSE /\ gcpc' = "rm_lock"
                    /\ rmHash' = tree[candIdx].hash
                    /\ rmLastMod' = tree[candIdx].lastMod
                    /\ rmFrom' = "loop"
                    /\ candIdx' = candIdx + 1
    /\ UNCHANGED <<cfgVars, cntVars, opMap, refMap, mu, fsVars, now, get, opErr,
                   maxCands, walkIdx, tree, rmSize, cancelled, callsLeft, ret, envVars, ioFaults, evicted, skipped>>

\* cache.go:198-202: Lock; a referenced hash: Unlock and return.
GCRmLock ==
    /\ gcpc = "rm_lock"
    /\ mu = Free
    /\ IF rmHash \in DOMAIN refMap
       THEN RmReturn /\ skipped' = skipped \cup {rmHash} /\ UNCHANGED mu
       ELSE gcpc' = "rm_stat" /\ mu' = GC /\ UNCHANGED <<rmHash, rmLastMod, rmFrom, rmSize, skipped>>
    /\ UNCHANGED <<cfgVars, cntVars, opMap, refMap, fsVars, now, get, opErr,
                   maxCands, walkIdx, tree, candIdx, cancelled, callsLeft, ret, envVars, ioFaults, evicted>>

\* cache.go:203-212, mu held: os.Stat(path).  The file is gone, or its mtime
\* is not lastMod: return (mu stays locked).  Else install the removing op
\* and Unlock.
GCRmStat ==
    /\ gcpc = "rm_stat"
    /\ mu = GC
    /\ IF final[rmHash] = NoIno \/ ModTime(rmHash) # rmLastMod THEN
            /\ RmReturn
            /\ UNCHANGED <<opMap, mu>>
       ELSE /\ opMap' = [opMap EXCEPT ![rmHash] = GC]
            /\ rmSize' = Size(rmHash)
            /\ mu' = Free
            /\ gcpc' = "rm_remove"
            /\ UNCHANGED <<rmHash, rmLastMod, rmFrom>>
    /\ UNCHANGED <<cfgVars, cntVars, refMap, fsVars, now, get, opErr, maxCands,
                   walkIdx, tree, candIdx, cancelled, callsLeft, ret, envVars, ioFaults, evicted, skipped>>

\* cache.go:214: os.Remove(path) unlinks the file; it fails on a missing file,
\* and on a file that exists when the file system refuses (an I/O error).
GCRemove ==
    /\ gcpc = "rm_remove"
    /\ \E fault \in (IF ioFaults > 0 THEN BOOLEAN ELSE {FALSE}) :
        IF final[rmHash] # NoIno /\ ~fault THEN
            /\ LET fin == [final EXCEPT ![rmHash] = NoIno] IN
                /\ final' = fin
                /\ ino' = Reclaim(ino, fin, tmp, get)
            /\ evicted' = evicted \cup {rmHash}
            /\ gcpc' = "rm_done"
            /\ UNCHANGED ioFaults
        ELSE
            /\ gcpc' = "rm_fail"
            /\ ioFaults' = IF fault THEN ioFaults - 1 ELSE ioFaults
            /\ UNCHANGED <<final, ino, evicted>>
    /\ UNCHANGED <<cfgVars, cntVars, opMap, refMap, mu, tmp, now, get, opErr,
                   maxCands, walkIdx, tree, candIdx, rmHash, rmLastMod, rmFrom, rmSize,
                   cancelled, callsLeft, ret, envVars, skipped>>

\* GCRmFail without the delete(c.opMap, hash) and the close(op.done).
GCRmFailKeepsOp ==
    /\ gcpc = "rm_fail"
    /\ mu = Free
    /\ RmReturn
    /\ UNCHANGED <<cfgVars, cntVars, opMap, refMap, mu, fsVars, now, get, opErr, maxCands, walkIdx, tree, candIdx, cancelled,
                   callsLeft, ret, envVars, ioFaults, evicted, skipped>>

\* cache.go:215-220: Lock, delete(c.opMap, hash), Unlock, close(op.done),
\* return the error (the caller logs it).
GCRmFail ==
    /\ gcpc = "rm_fail"
    /\ mu = Free
    /\ opMap' = [opMap EXCEPT ![rmHash] = NoOp]
    /\ get' = WakeRemove
    /\ RmReturn
    /\ UNCHANGED <<cfgVars, cntVars, refMap, mu, fsVars, now, opErr, maxCands, walkIdx, tree, candIdx, cancelled,
                   callsLeft, ret, envVars, ioFaults, evicted, skipped>>

\* cache.go:224-232: Lock, delete(c.opMap, hash), numRemoved++, numFiles--,
\* totalSize -= finfo.Size(), Unlock, close(op.done).
GCRmDone ==
    /\ gcpc = "rm_done"
    /\ mu = Free
    /\ opMap' = [opMap EXCEPT ![rmHash] = NoOp]
    /\ numRemoved' = numRemoved + 1
    /\ numFiles' = (numFiles - 1) % UintMod
    /\ totalSize' = (totalSize - rmSize) % UintMod
    /\ get' = WakeRemove
    /\ RmReturn
    /\ UNCHANGED <<cfgVars, numRequested, numHit, numCreated, numFailed, refMap, mu,
                   fsVars, now, opErr, maxCands,
                   walkIdx, tree, candIdx, cancelled, callsLeft, ret, envVars, ioFaults, evicted, skipped>>

\* cache.go:324-332: the timer of gcInterval fires, or ctx is done.
GCSleep ==
    /\ gcpc = "sleep"
    /\ gcpc' = IF cancelled THEN "returned" ELSE "lock"
    /\ tree' = << >> /\ walkIdx' = 1 /\ candIdx' = 1
    /\ UNCHANGED <<cfgVars, cntVars, opMap, refMap, mu, fsVars, now, get, opErr,
                   maxCands, rmHash, rmLastMod, rmFrom, rmSize, cancelled, callsLeft, ret,
                   envVars, ioFaults, evicted, skipped>>

\* Time passes.
Tick ==
    /\ now < horizon
    /\ now' = now + 1
    /\ UNCHANGED <<cfgVars, cntVars, opMap, refMap, mu, fsVars, get, opErr, gcVars,
                   cancelled, callsLeft, ret, envVars, ioFaults, evicted, skipped>>

\* ------------------------------------------------------- specifications
GetStep(p) ==
    \/ \E d \in Digests : GetStart(p, d)
    \/ GetLock(p)
    \/ GetStat(p)
    \/ GetOpenTmp(p)
    \/ GetCreate(p)
    \/ GetCreateFail(p)
    \/ GetStatTmp(p)
    \/ GetRename(p)
    \/ GetFailRemove(p)
    \/ GetFail(p)
    \/ GetPublish(p)
    \/ GetOpen(p)
    \/ GetRef(p)
    \/ Close(p)

Serve ==
    \/ GCWait
    \/ GCWalk
    \/ GCLoop
    \/ GCRmLock
    \/ GCRmStat
    \/ GCRemove
    \/ GCRmFail
    \/ GCRmDone
    \/ GCSleep

Next ==
    \/ \E p \in Threads : GetStep(p)
    \/ Serve
    \/ Tick

Spec == Init /\ [][Next]_vars

\* Both caps and the age are zero ("unlimited", Config.MaxFiles, MaxSize and
\* MaxAge); the directory holds any set of entries, scanned at their time of
\* writing or one tick later.
ZeroCalls == 2
ZeroInit ==
    \E disk \in {{}, {2, 3}}, t0 \in {0, 1} :
        Constructed(0, 0, 0, disk, t0, {1}, ZeroCalls, 1, 1)

ZeroSpec == ZeroInit /\ [][Next]_vars

\* The steps of Get that the goroutine takes by itself once Get is called: all
\* of them but the call, the builder's choice to fail, and the caller's Close.
GetProgress(p) ==
    \/ GetLock(p)
    \/ GetStat(p)
    \/ GetOpenTmp(p)
    \/ GetCreate(p)
    \/ GetStatTmp(p)
    \/ GetRename(p)
    \/ GetFailRemove(p)
    \/ GetFail(p)
    \/ GetPublish(p)
    \/ GetOpen(p)
    \/ GetRef(p)

\* The scheduler runs every goroutine that can run, sync.Mutex hands the lock
\* to every waiter in turn (starvation mode), the builder returns, timers fire
\* and the clock advances.
Fairness ==
    /\ \A p \in Threads : SF_vars(GetProgress(p))
    /\ SF_vars(Serve)
    /\ WF_vars(Tick)

\* The specification of the liveness claims: the caps of the main
\* specification, entries expire after one tick, the directory holds the entry
\* the callers ask for, alone (no cap exceeded) or with the two others.
LiveCalls == 2
LiveTime == 2
LiveInit ==
    \E disk \in {{1}, {1, 2, 3}} :
        Constructed(1, FullLen * Cardinality(Digests), 1, disk, 0, {1}, LiveCalls, LiveTime, 1)

LiveSpec == LiveInit /\ [][Next]_vars /\ Fairness

\* ----------------------------------------------------------------- claims
\* The goroutines whose call of c.create for digest d has not returned.
Building(d) == {p \in Threads : get[p].pc = "g_create" /\ get[p].hash = d}

\* A goroutine is inside Get (it has called and not returned).
InGet(p) == get[p].pc \notin {"idle", "holding"}

\* C1: singleflight: for every digest, at most one invocation of the builder
\* is executing at any time.
C1_Singleflight == \A d \in Digests : Cardinality(Building(d)) <= 1

\* C2: reader pin: while a File returned by Get is open, the file of its digest
\* exists at the final path and is the file the handle reads (never unlinked).
C2_ReaderPin ==
    \A p \in Threads :
        get[p].pc = "holding" => final[get[p].hash] = get[p].file

\* C4: atomic publication: whatever is linked at a final path is the complete
\* output of a builder run that is over (no builder writes to it any more), and
\* so is what an open File reads.
C4_AtomicPublication ==
    /\ \A d \in Digests :
        final[d] # NoIno =>
            /\ Complete(final[d])
            /\ \A p \in Threads : get[p].pc = "g_create" => get[p].file # final[d]
    /\ \A p \in Threads : get[p].pc = "holding" => Complete(get[p].file)

\* C3: every Get call that has started eventually returns.
C3_GetCompletes == \A p \in Threads : InGet(p) ~> ~InGet(p)

\* C5: when the initiating Get returns the builder's error, every Get waiting
\* on its BUILDING op returns that same error, and once no other Get of the
\* key is in progress the key has neither a file nor an op, so that the next
\* Get of the key runs the builder again.
C5_BuilderFailure ==
    [][\A p \in Threads :
        (get[p].pc = "g_fail" /\ get'[p].pc = "idle" /\ opErr[p].kind = "create") =>
            /\ ret'[p].st = "err" /\ ret'[p].err = opErr[p]
            /\ \A w \in Waiters(p) : ret'[w].st = "err" /\ ret'[w].err = opErr[p]
            /\ (\A q \in Threads \ {p} :
                    get'[q].pc = "idle" \/ get'[q].hash # get[p].hash) =>
                    /\ final'[get[p].hash] = NoIno
                    /\ opMap'[get[p].hash] = NoOp]_vars

\* The goroutines whose last call returned with the given flag.
Reported(K, flag) ==
    {p \in Threads : ret[p].st = "ok" /\ ret[p].hash = K /\ ret[p].fromCache = flag}

\* Every goroutine has made exactly one call, for K, and the call has returned;
\* K had no entry after construction, was not evicted, and no operation failed.
ColdCallsDone(K) ==
    /\ K \notin disk0
    /\ K \notin evicted
    /\ numFailed = 0
    /\ callsLeft = MaxCalls - Cardinality(Threads)
    /\ \A p \in Threads : ret[p].st = "ok" /\ ret[p].hash = K /\ get[p].pc \in {"idle", "holding"}

\* C6: when N goroutines call Get for a key that has no entry, the builder
\* succeeds and the key is not evicted meanwhile, the builder has run once,
\* one call reports from_cache = false and the others true, and the counters
\* show created = 1, hit = N - 1, requested = N.
C6_ColdConcurrent ==
    \A K \in Digests : ColdCallsDone(K) =>
        /\ Cardinality({p \in Threads : ret[p].built}) = 1
        /\ Cardinality(Reported(K, FALSE)) = 1
        /\ Cardinality(Reported(K, TRUE)) = Cardinality(Threads) - 1
        /\ numCreated = 1
        /\ numHit = Cardinality(Threads) - 1
        /\ numRequested = Cardinality(Threads)

C6_Witness ==
    /\ ColdCallsDone(1)
    /\ numCreated = 1
    /\ numHit = Cardinality(Threads) - 1

\* A cap is exceeded, a cap of zero being no cap.
CapExceeded ==
    \/ maxFiles # 0 /\ maxFiles < numFiles
    \/ maxSize # 0 /\ maxSize < totalSize

\* C7: the collector leaves its wait for a cycle, and evicts a candidate of
\* the tree, only when a cap is exceeded; with max_files = 0 and max_size = 0
\* no cap is ever exceeded.
C7_ZeroCapsUnlimited ==
    [][(\/ gcpc = "lock" /\ gcpc' = "walk"
        \/ gcpc = "loop" /\ gcpc' = "rm_lock") => CapExceeded]_vars

\* C8: with max_age = 0 the initial scan removes no file and the collector's
\* walk hands no file to rmCache for its age.
C8_ZeroAgeUnlimited ==
    maxAge = 0 =>
        /\ scanRemoved = 0
        /\ ~(gcpc \in {"rm_lock", "rm_stat", "rm_remove", "rm_fail", "rm_done"} /\ rmFrom = "walk")

\* The entry of digest d has not been accessed for longer than max_age.
ExpiredEntry(d) ==
    /\ maxAge > 0
    /\ final[d] # NoIno
    /\ Expired(maxAge, ModTime(d), now)

\* C9: an entry that has not been accessed for longer than max_age > 0 is
\* eventually removed (or accessed again), also while no cap is exceeded.
C9_ExpiredEvicted ==
    \A d \in Digests :
        [](ExpiredEntry(d) /\ ~Overflow => <>(~ExpiredEntry(d) \/ Overflow))

\* No Get is in progress and none will be called.
Quiet == callsLeft = 0 /\ \A p \in Threads : get[p].pc = "idle"

\* C10: once the callers are done and every handle is closed, the collector
\* brings num_files and total_size back to the caps, for good.
C10_CapsEnforced ==
    [](Quiet => <>[](numFiles <= maxFiles /\ totalSize <= maxSize))

\* The specification of the eviction order: two files at most, no age limit
\* within the clock's range, an empty directory, and callers that ask for all
\* three digests while the clock runs.
LruCalls == 3
LruTime == 2
LruInit ==
    Constructed(2, FullLen * Cardinality(Digests), LruTime, {}, 0, Digests, LruCalls, LruTime, 1)

LruSpec == LruInit /\ [][Next]_vars

\* Digest d was a candidate of this cycle before the current one and is still
\* there with the mtime of its snapshot: rmCache left it (pinned, or its
\* unlink failed).
LeftBehind(d) ==
    \E j \in 1 .. (candIdx - 2) :
        j <= Len(tree) /\ tree[j].hash = d /\ tree[j].lastMod = ModTime(d)

\* C11: when a cycle started by the file-count cap unlinks a candidate, every
\* entry that remains, and that the cycle did not leave behind as pinned
\* or expired, has an mtime no older than the unlinked candidate's.
C11_LruOrder ==
    [][(gcpc = "rm_remove" /\ gcpc' = "rm_done" /\ rmFrom = "loop") =>
        \A d \in Digests \ {rmHash} :
            final'[d] # NoIno =>
                \/ rmLastMod <= ModTime(d)
                \/ LeftBehind(d)
                \/ Expired(maxAge, ModTime(d), now)]_vars

\* A candidate has been unlinked while a strictly newer entry remains.
C11_Witness ==
    /\ gcpc = "rm_done" /\ rmFrom = "loop"
    /\ \E d \in Digests : final[d] # NoIno /\ rmLastMod < ModTime(d)

\* Digest d has an open handle or a Get in progress.
InUse(d) ==
    \/ d \in DOMAIN refMap
    \/ \E p \in Threads : get[p].pc # "idle" /\ get[p].hash = d

\* C12: an entry passed over because it was pinned is removed by a later
\* cycle once its handles are closed and it is not used again, unless the
\* cache gets back within its caps.
C12_EligibleAfterClose ==
    \A d \in Digests :
        \/ []<>InUse(d)
        \/ [](d \in skipped => <>(final[d] = NoIno \/ ~Overflow))

\* The caller of Serve cancels ctx.
Cancel ==
    /\ ~cancelled
    /\ cancelled' = TRUE
    /\ UNCHANGED <<cfgVars, cntVars, opMap, refMap, mu, fsVars, now, get, opErr,
                   gcVars, callsLeft, ret, envVars, ioFaults, evicted, skipped>>

NextCancel == Next \/ Cancel

\* The specification of cancellation: the configuration of the liveness
\* specification, one Get call, and a ctx that may be cancelled at any time.
CancelCalls == 1
CancelTime == 1
CancelInit ==
    \E disk \in {{1}, {1, 2, 3}} :
        Constructed(1, FullLen * Cardinality(Digests), 1, disk, 0, {1}, CancelCalls, CancelTime, 1)

CancelSpec == CancelInit /\ [][NextCancel]_vars /\ Fairness

\* C13: once ctx is cancelled, Serve eventually returns.
C13_CancelReturns == cancelled ~> (gcpc = "returned")

\* The specification of the error paths: the main specification with one
\* file-system call that fails of its own.
FaultCalls == 2
FaultInit ==
    \E disk \in {{}, {2, 3}} :
        Constructed(1, FullLen * Cardinality(Digests), 1, disk, 0, {1}, FaultCalls, 1, 1)

FaultSpec == FaultInit /\ [][Next]_vars

\* The handles goroutines hold on digest d, and refMap's count for d.
Holders(d) == {p \in Threads : get[p].pc = "holding" /\ get[p].hash = d}
RefCount(d) == IF d \in DOMAIN refMap THEN refMap[d] ELSE 0

\* C14: a Get call that has returned an error has left no op of its own in
\* opMap and no reference: the references counted are those of the handles
\* that successful calls returned.
C14_ErrorLeavesNothing ==
    \A p \in Threads :
        (get[p].pc = "idle" /\ ret[p].st = "err") =>
            /\ \A d \in Digests : opMap[d] # p
            /\ \A d \in Digests : RefCount(d) = Cardinality(Holders(d))

\* A call has returned an error while another goroutine holds a handle.
C14_Witness ==
    \E p, q \in Threads :
        /\ get[p].pc = "idle" /\ ret[p].st = "err"
        /\ ret[p].err.kind \in {"create", "open", "stat path", "open tmp"}
        /\ get[q].pc = "holding"

\* Goroutine p classifies its request for digest d as a miss: it installs its
\* creating op and goes on to run the builder.
Misses(p, d) ==
    /\ get[p].pc = "g_stat" /\ get[p].hash = d
    /\ get'[p].pc = "g_opentmp"

\* C15: a successful Get reports from_cache = false exactly when the call
\* itself ran the builder; and a Get for a digest that another call has
\* already returned successfully, and that was never evicted, does not run the
\* builder.
C15_FromCache ==
    /\ [](\A p \in Threads : ret[p].st = "ok" => (ret[p].fromCache = ~ret[p].built))
    /\ [][\A p \in Threads, d \in Digests :
            (Misses(p, d) /\ d \notin evicted) =>
                ~(\E q \in Threads \ {p} : ret[q].st = "ok" /\ ret[q].hash = d)]_vars

\* One call built the entry and reported false, a later call of another
\* goroutine got it from the cache and reported true.
C15_Witness ==
    \E p, q \in Threads :
        /\ ret[p].st = "ok" /\ ret[p].built /\ ~ret[p].fromCache
        /\ ret[q].st = "ok" /\ ~ret[q].built /\ ret[q].fromCache
        /\ ret[p].hash = ret[q].hash /\ ret[p].hash \notin evicted
        /\ numCreated = 1

\* C16: whenever no Get call is in progress, requested = hit + created +
\* failed.
C16_StatsIdentity ==
    (\A p \in Threads : ~InGet(p)) =>
        numRequested = numHit + numCreated + numFailed

\* The builder run by p's call failed and q's concurrent call, waiting on p's
\* op, returned the same error.
SameBuilderError(p, q) ==
    /\ p # q
    /\ ret[q].st = "err" /\ ret[q].err = [op |-> p, kind |-> "create"]
    /\ ret[q].hash = ret[p].hash /\ get[q].pc = "idle"

\* The two calls have returned the builder's error, and they are the only
\* calls so far.
BothFailed(p, q) ==
    /\ SameBuilderError(p, q)
    /\ ret[p].st = "err" /\ ret[p].err = ret[q].err /\ get[p].pc = "idle"
    /\ numRequested = 2

\* After them a third call, p's, has built the entry and returned.
ThenCreated(p, q) ==
    /\ SameBuilderError(p, q)
    /\ ret[p].st = "ok" /\ ret[p].built
    /\ numRequested = 3

\* C17 as stated: the failed counter counts both calls (numFailed = 2), and
\* after the later successful Get numCreated = 1.
C17_FailedTwice ==
    \A p, q \in Threads :
        /\ BothFailed(p, q) => numFailed = 2
        /\ ThenCreated(p, q) => numFailed = 2 /\ numCreated = 1

\* C17 as the code has it: the failed build is counted once, the call that
\* waited on it was counted as a hit, and after the later successful Get
\* numCreated = 1.
C17_FailedOnce ==
    \A p, q \in Threads :
        /\ BothFailed(p, q) => numFailed = 1 /\ numHit = 1 /\ numCreated = 0
        /\ ThenCreated(p, q) => numFailed = 1 /\ numHit = 1 /\ numCreated = 1

C17_Witness == \E p, q \in Threads : ThenCreated(p, q) /\ get[p].pc = "holding"

\* The operations in flight for digest d: the Get calls between the install
\* of their creating op and its unregistration, and the collector between the
\* install of its removing op and its unregistration.
OpsInFlight(d) ==
    {p \in Threads : get[p].hash = d /\
        get[p].pc \in {"g_opentmp", "g_create", "g_stattmp", "g_rename",
                       "g_publish", "g_failrm", "g_fail"}}
    \cup (IF gcpc \in {"rm_remove", "rm_fail", "rm_done"} /\ rmHash = d
          THEN {GC} ELSE {})

\* The step unregisters the op of digest d, and the one who takes it is the
\* op's creator.
ByOwner(d) ==
    IF opMap[d] = GC
    THEN gcpc \in {"rm_fail", "rm_done"} /\ gcpc' # gcpc
    ELSE get[opMap[d]].pc \in {"g_fail", "g_publish"} /\ get'[opMap[d]].pc # get[opMap[d]].pc

\* C18: at most one operation is in flight for a digest; an op is installed
\* only where none is registered, and unregistered only by its creator.
C18_BuildEvictExclusion ==
    /\ [](\A d \in Digests : Cardinality(OpsInFlight(d)) <= 1)
    /\ [][\A d \in Digests :
            /\ (opMap'[d] # opMap[d] /\ opMap'[d] # NoOp) => opMap[d] = NoOp
            /\ (opMap'[d] # opMap[d] /\ opMap'[d] = NoOp) => ByOwner(d)]_vars

\* rmCache returns without having installed its op: it passes the candidate
\* over.
SkipsCandidate == gcpc \in {"rm_lock", "rm_stat"} /\ gcpc' \in {"walk", "loop"}

\* C19: when rmCache passes a candidate over, it returns with the mutex
\* released and with opMap, refMap and the counters unchanged.
C19_SkipReleasesMutex ==
    [][SkipsCandidate =>
        /\ mu' = Free
        /\ UNCHANGED <<opMap, refMap, cntVars>>]_vars

\* C20: from the moment a Get has classified a hit, or has completed or
\* awaited a successful build, until it has taken its reference, the file of
\* the entry exists at its path: the open does not fail and the file opened
\* stays linked.
C20_OpenAfterHit ==
    \A p \in Threads :
        /\ get[p].pc = "g_open" => final[get[p].hash] # NoIno
        /\ get[p].pc = "g_ref" => final[get[p].hash] = get[p].file

\* The collector finishes a removal: rmCache's last critical section.
Decrements == gcpc = "rm_done" /\ gcpc' # "rm_done"

\* C21: numFiles and totalSize never wrap: whenever the collector decrements
\* them, numFiles is at least 1 and totalSize at least the size it subtracts.
C21_NoUnderflow ==
    [][Decrements => (numFiles >= 1 /\ totalSize >= rmSize)]_vars

\* The specification of entries that outlive their age: the caps of the main
\* specification, entries expire after one tick and the clock runs two ticks;
\* the directory holds the two entries the callers do not ask for.
StaleCalls == 2
StaleTime == 2
StaleInit ==
    Constructed(1, FullLen * Cardinality(Digests), 1, {2, 3}, 0, {1}, StaleCalls, StaleTime, 1)

StaleSpec == StaleInit /\ [][Next]_vars

\* The entry files present under the cache root, and the sum of their sizes.
OnDisk == {d \in Digests : final[d] # NoIno}

RECURSIVE SumSize(_)
SumSize(S) ==
    IF S = {} THEN 0
    ELSE LET d == CHOOSE e \in S : TRUE IN Size(d) + SumSize(S \ {d})

\* No build and no eviction is in progress: no goroutine is inside Get, no op
\* is registered and the collector is outside its cycle.
Settled ==
    /\ \A p \in Threads : ~InGet(p)
    /\ \A d \in Digests : opMap[d] = NoOp
    /\ gcpc \in {"lock", "condwait", "sleep", "returned"}

\* C22: accounting matches the disk: whenever no build and no eviction is in
\* progress, numFiles is the number of entry files under the cache root and
\* totalSize is the sum of their sizes.
C22_AccountingMatchesDisk ==
    Settled => (numFiles = Cardinality(OnDisk) /\ totalSize = SumSize(OnDisk))

\* The specification of callers of two digests: the caps of the main
\* specification; the directory holds two entries, the callers ask for one of
\* them and for an entry that is not there.
TwoKeyCalls == 2
TwoKeyTime == 1
TwoKeyInit ==
    Constructed(1, FullLen * Cardinality(Digests), 1, {2, 3}, 0, {1, 2}, TwoKeyCalls, TwoKeyTime, 1)

TwoKeySpec == TwoKeyInit /\ [][Next]_vars /\ Fairness

\* The goroutine p waits in <-op.done.
Waiting(p) == get[p].pc \in {"g_waitc", "g_waitr"}

\* C23: every op registered in opMap is eventually unregistered, and every
\* goroutine waiting for an op is eventually woken.
C23_OpsTerminate ==
    /\ \A d \in Digests : (opMap[d] # NoOp) ~> (opMap[d] = NoOp)
    /\ \A p \in Threads : Waiting(p) ~> ~Waiting(p)

\* C24: no Get returns the "removal twice" error: a Get that has waited for a
\* removing op does not find a removing op again on its retry.
C24_NoRemovalTwice ==
    \A p \in Threads : ~(ret[p].st = "err" /\ ret[p].err.kind = "twice")

\* os.Remove(path) of rmCache unlinks the file of rmHash.
Unlinks == gcpc = "rm_remove" /\ final[rmHash] # NoIno /\ final'[rmHash] = NoIno

\* C25: the collector unlinks a file only while its mtime is the mtime the
\* walk recorded for the candidate.
C25_MtimeRechecked == [][Unlinks => ModTime(rmHash) = rmLastMod]_vars

\* The goroutine p completes a file-system call or the builder: the os.Stat
\* and os.Chtimes of the lookup, the calls of the build, the os.Open.
GetIO(p) ==
    /\ get[p].pc \in {"g_stat", "g_opentmp", "g_create", "g_stattmp", "g_rename",
                      "g_failrm", "g_open"}
    /\ get'[p] # get[p]

\* The collector completes a file-system call: a step of the directory walk,
\* the os.Stat or the os.Remove of rmCache.
ServeIO ==
    \/ gcpc = "walk" /\ walkIdx' # walkIdx
    \/ gcpc \in {"rm_stat", "rm_remove"} /\ gcpc' # gcpc

\* C26: no goroutine makes a file-system call or runs the builder while it
\* holds mu.
C26_NoIOUnderLock ==
    [][/\ \A p \in Threads : GetIO(p) => mu # p
       /\ ServeIO => mu # GC]_vars

\* The specification of the size cap: room for two entries of the three the
\* callers ask for, a file-count cap and an age limit that are never reached,
\* an empty directory.
SizeCalls == 3
SizeTime == 2
SizeInit ==
    Constructed(Cardinality(Digests), 2 * FullLen, SizeTime, {}, 0, Digests, SizeCalls, SizeTime, 1)

SizeSpec == SizeInit /\ [][Next]_vars

\* rmCache runs on a candidate of the candidate loop.
EvictingCandidate ==
    gcpc \in {"rm_lock", "rm_stat", "rm_remove", "rm_fail", "rm_done"} /\ rmFrom = "loop"

\* C27: caps are upper bounds, not targets: the candidate loop evicts a
\* candidate only while a cap is exceeded, so that what has been removed leaves
\* the cache less than one entry below a cap.
C27_CapsAreBounds ==
    /\ EvictingCandidate => Overflow
    /\ numRemoved > 0 => (maxFiles < numFiles + 1 \/ maxSize < totalSize + FullLen)

\* Three entries written at three times exceed the size cap by one, and the
\* oldest has been unlinked: the two others remain.
C27_Witness ==
    /\ gcpc = "rm_done" /\ rmFrom = "loop"
    /\ numCreated = 3 /\ numRemoved = 0 /\ totalSize = maxSize + FullLen
    /\ Cardinality(OnDisk) = 2
    /\ \A d \in OnDisk : rmLastMod < ModTime(d)

\* The specification of the candidate selector: the walker of one cycle over a
\* directory of SelFiles entries, more than the tree takes, none of them
\* expired and none in use.  The entry i was last accessed at (i * s) % m:
\* all at the same time (s = 0), at times that repeat with a short period,
\* or at SelFiles distinct times in an order that is not the walk's.
SelFiles == 66
SelStrides == 4
SelMtime(s, m, i) == (i * s) % m

SelInit ==
    \E s \in 0 .. SelStrides, m \in {2, 3, 5, SelFiles + 1} :
        /\ maxFiles = 1 /\ maxSize = FullLen * SelFiles /\ maxAge = SelFiles + 1
        /\ now = SelFiles + 1
        /\ final = [d \in 1 .. SelFiles |-> d]
        /\ tmp = [d \in 1 .. SelFiles |-> NoIno]
        /\ ino = [i \in 1 .. SelFiles |-> [len |-> FullLen, mtime |-> SelMtime(s, m, i)]]
        /\ numFiles = SelFiles /\ totalSize = FullLen * SelFiles
        /\ scanRemoved = 0
        /\ numRequested = 0 /\ numHit = 0 /\ numCreated = 0
        /\ numFailed = 0 /\ numRemoved = 0
        /\ opMap = [d \in 1 .. SelFiles |-> NoOp]
        /\ refMap = [d \in {} |-> 0]
        /\ mu = Free
        /\ get = [p \in Threads |-> IdleFrame]
        /\ opErr = [p \in Threads |-> NilErr]
        /\ gcpc = "walk" /\ cancelled = FALSE
        /\ maxCands = CandCap(InitMaxCands) /\ walkIdx = 1 /\ tree = << >> /\ candIdx = 1
        /\ rmHash = 1 /\ rmLastMod = 0 /\ rmFrom = "walk" /\ rmSize = 0
        /\ keys = {} /\ callsLeft = 0 /\ horizon = SelFiles + 1 /\ ioFaults = 0
        /\ disk0 = 1 .. SelFiles /\ evicted = {} /\ skipped = {}
        /\ ret = [p \in Threads |-> NoRet]
        /\ conf = DirConfig(1, FullLen * SelFiles, SelFiles + 1)
        /\ cache = NewWithConfig(DirConfig(1, FullLen * SelFiles, SelFiles + 1), TRUE, TRUE)

\* cache.go:255-293, the walker on the next of the SelFiles entries: the file
\* is there and not expired, it becomes a candidate (cache.go:283-291).
SelWalk ==
    /\ gcpc = "walk"
    /\ walkIdx <= SelFiles
    /\ ~Expired(maxAge, ModTime(walkIdx), now)
    /\ tree' = AddCandidate(tree, [hash |-> walkIdx, lastMod |-> ModTime(walkIdx)])
    /\ walkIdx' = walkIdx + 1
    /\ UNCHANGED <<cfgVars, cntVars, opMap, refMap, mu, fsVars, now, get, opErr,
                   gcpc, maxCands, candIdx, rmHash, rmLastMod, rmFrom, rmSize,
                   cancelled, callsLeft, ret, envVars, ioFaults, evicted, skipped>>

SelSpec == SelInit /\ [][SelWalk]_vars

\* The entries the walk has scanned, and those of them in the tree.
Scanned == 1 .. (walkIdx - 1)
Selected == {tree[j].hash : j \in 1 .. Len(tree)}

\* C28: after the scan of n entries that are not expired the tree holds
\* min(n, maxCands) of them, each once and with its mtime, in ascending order
\* of mtime, and no entry left out is older than an entry in the tree.
C28_OldestSelected ==
    /\ Len(tree) = (IF walkIdx - 1 < maxCands THEN walkIdx - 1 ELSE maxCands)
    /\ Cardinality(Selected) = Len(tree)
    /\ Selected \subseteq Scanned
    /\ \A j \in 1 .. Len(tree) : tree[j].lastMod = ModTime(tree[j].hash)
    /\ \A j \in 1 .. (Len(tree) - 1) : tree[j].lastMod <= tree[j + 1].lastMod
    /\ \A i \in Scanned \ Selected, j \in Selected : ModTime(j) <= ModTime(i)

\* More entries than the tree takes have been scanned, at more than one
\* mtime, and an entry left out has the mtime of an entry in the tree.
C28_Witness ==
    /\ maxCands < walkIdx - 1
    /\ Len(tree) = maxCands
    /\ tree[1].lastMod < tree[Len(tree)].lastMod
    /\ \E i \in Scanned \ Selected : \E j \in Selected : ModTime(i) = ModTime(j)

\* The goroutine p takes a step of its build after the op is installed and
\* before the last critical section, and the last step of a failed build:
\* the critical section of cache.go:447-453 with the return of op.err.
BuildStep(p) ==
    /\ get[p].pc \in {"g_opentmp", "g_create", "g_stattmp", "g_rename", "g_failrm"}
    /\ get'[p] # get[p]

FailsBuild(p) == get[p].pc = "g_fail" /\ get'[p].pc = "idle"

\* C29: a build that fails returns with neither the temp path nor the final
\* path of its digest in place, has changed no counter on its way, counts one
\* failure and nothing else when it ends, and its op carries the error it
\* returns when the op is closed.
C29_FailedBuildCleansUp ==
    [][\A p \in Threads :
        /\ BuildStep(p) => UNCHANGED cntVars
        /\ FailsBuild(p) =>
            /\ final'[get[p].hash] = NoIno /\ tmp'[get[p].hash] = NoIno
            /\ numFailed' = numFailed + 1
            /\ UNCHANGED <<numFiles, totalSize, numRequested, numHit, numCreated, numRemoved>>
            /\ opErr[p] # NilErr /\ ret'[p].st = "err" /\ ret'[p].err = opErr[p]]_vars

\* rmCache returns after a failed os.Remove (cache.go:215-220).
UnlinkFailed == gcpc = "rm_fail" /\ gcpc' # "rm_fail"

\* C30: when the unlink of a candidate has failed, the collector unregisters
\* the removing op and wakes its waiters, changes no counter, returns nothing
\* to any Get, and goes on with the walk or with the next candidate.
C30_UnlinkFailureContained ==
    [][UnlinkFailed =>
        /\ opMap'[rmHash] = NoOp
        /\ \A p \in Threads : get[p].pc = "g_waitr" => get'[p].pc = "g_lock"
        /\ UNCHANGED <<cntVars, ret>>
        /\ gcpc' \in {"walk", "loop"}]_vars

\* An unlink has failed on a file that is still there, and the Get that
\* waited for the removal has been woken for its retry.
C30_Witness ==
    /\ ioFaults = 0 /\ numRemoved = 0 /\ numFailed = 0
    /\ gcpc \in {"walk", "loop"}
    /\ \E p \in Threads :
        /\ get[p].pc = "g_lock" /\ get[p].isRetry
        /\ opMap[get[p].hash] = NoOp
        /\ final[get[p].hash] # NoIno

\* Status().NumRefs: len(c.refMap).
NumRefs == Cardinality(DOMAIN refMap)

\* C31: refMap counts, for every digest, the handles returned and not yet
\* closed; it holds no entry of zero or less, so that NumRefs is the number of
\* digests that have an open handle.
C31_RefcountAccounting ==
    /\ \A d \in Digests : RefCount(d) = Cardinality(Holders(d))
    /\ \A d \in DOMAIN refMap : refMap[d] >= 1
    /\ NumRefs = Cardinality({d \in Digests : Holders(d) # {}})

\* A handle of a digest has been returned and closed while another handle of
\* the same digest is open: the count is one.
C31_Witness ==
    \E p \in Threads : \E q \in Threads \ {p} :
        /\ get[p].pc = "holding" /\ refMap[get[p].hash] = 1
        /\ get[q].pc = "idle" /\ ret[q].st = "ok" /\ ret[q].hash = get[p].hash
        /\ callsLeft = 0

\* The specification of the constructor: NewWithConfig is called once, with a
\* Config whose Dir is empty, relative or absolute, whose Create is nil or
\* given, whose caps are zero or not and whose MaxAge and GCInterval are
\* negative, zero or positive, for a cache directory that does not exist yet.
NewAges == {0 - 1, 0, 1}
NewIntervals == {0 - 1, 0, 1}
NewDirs == {EmptyPath, [abs |-> FALSE, names |-> <<"cache">>],
            [abs |-> TRUE, names |-> <<"var", "cache">>]}

NotCalled == Failed("not called")

NewInit ==
    /\ conf \in [Dir : NewDirs, Create : BOOLEAN, MaxFiles : {0, 1},
                 MaxSize : {0, FullLen}, MaxAge : NewAges, GCInterval : NewIntervals]
    /\ cache = NotCalled
    /\ maxFiles = 0 /\ maxSize = 0 /\ maxAge = 0
    /\ now = 0
    /\ final = [d \in Digests |-> NoIno]
    /\ tmp = [d \in Digests |-> NoIno]
    /\ ino = [i \in Inodes |-> FreeIno]
    /\ numFiles = 0 /\ totalSize = 0
    /\ scanRemoved = 0
    /\ numRequested = 0 /\ numHit = 0 /\ numCreated = 0
    /\ numFailed = 0 /\ numRemoved = 0
    /\ opMap = [d \in Digests |-> NoOp]
    /\ refMap = [d \in {} |-> 0]
    /\ mu = Free
    /\ get = [p \in Threads |-> IdleFrame]
    /\ opErr = [p \in Threads |-> NilErr]
    /\ gcpc = "lock" /\ cancelled = FALSE
    /\ maxCands = InitMaxCands /\ walkIdx = 1 /\ tree = << >> /\ candIdx = 1
    /\ rmHash = 1 /\ rmLastMod = 0 /\ rmFrom = "walk" /\ rmSize = 0
    /\ keys = {} /\ callsLeft = 0 /\ horizon = 0 /\ ioFaults = 0
    /\ disk0 = {} /\ evicted = {} /\ skipped = {}
    /\ ret = [p \in Threads |-> NoRet]

\* NewWithConfig (cache.go:88-193) over a directory that holds no entry: an
\* error, or a Cache with the caps and the age of the Config, empty maps and
\* zero counters (the scan finds nothing).
NewCall ==
    /\ cache = NotCalled
    /\ \E ucdOk \in BOOLEAN, mkdirOk \in BOOLEAN :
        LET c == NewWithConfig(conf, ucdOk, mkdirOk) IN
        /\ cache' = c
        /\ IF c.err = "nil"
           THEN /\ maxFiles' = conf.MaxFiles
                /\ maxSize' = conf.MaxSize
                /\ maxAge' = conf.MaxAge
           ELSE UNCHANGED cfgVars
    /\ UNCHANGED <<conf, keys, horizon, disk0, scanRemoved>>
    /\ UNCHANGED <<cntVars, opMap, refMap, mu, fsVars, now, get, opErr, gcVars,
                   cancelled, callsLeft, ret, ioFaults, evicted, skipped>>

NewSpec == NewInit /\ [][NewCall]_vars

\* NewWithConfig has returned from a call with an empty Dir and a Config that
\* is valid otherwise.
EmptyDirCalled ==
    /\ cache # NotCalled
    /\ conf.Dir = EmptyPath
    /\ conf.Create /\ conf.MaxAge >= 0 /\ conf.GCInterval >= 0

\* C32: a construction with an empty Dir does not fail for its Config: unless
\* the environment fails (no user cache directory, no permission to create
\* the directory), it returns a Cache whose dir is the program's base name
\* under the user cache directory.
C32_EmptyDirFallsBack ==
    EmptyDirCalled =>
        /\ cache.err \in {"nil", "UserCacheDir", "MkdirAll"}
        /\ cache.err = "nil" => cache.dir = Join(UserCacheDir, ProgramBase)

====
